---- MODULE Spec2Model ----
(***************************************************************************)
(* goinit: a project-scaffolding command.  The repository holds four       *)
(* successive versions of the same program:                                *)
(*   "v1"  src/main.go 162-319   flat main, three embedded files           *)
(*   "v2"  src/main.go   1-160   createProjectFiles, createFile            *)
(*   "v3"  src/unnamed/part_000  go version probe, alias, scripts          *)
(*   "v4"  src/main.go 321-583   release config, github workflow           *)
(* A path is a sequence of components from the root; a name given to the   *)
(* program (and every name in its source) is a sequence of characters.     *)
(***************************************************************************)
EXTENDS Integers, Sequences, FiniteSets, TLC

VARIABLES
    variant,    \* which version of the program runs
    name,       \* the value of the -d flag (characters)
    cwd,        \* the process working directory (absolute path)
    dirs,       \* the directories on disk (absolute paths)
    files,      \* the files on disk: path -> [content, mode, by]
    umask,      \* the process file-mode creation mask
    cmds,       \* the subprocesses run so far, in order
    homeOk,     \* os.UserHomeDir succeeds
    sshState,   \* <home>/.ssh/config: "missing", "unreadable" or "present"
    sshPad,     \* bytes of the config that precede its last block
    sshBlock,   \* the last block of the config (characters)
    pc,         \* index of the next step of Steps(variant)
    exitCode,   \* -1 while running, then the exit status
    errMsg,     \* the error logged at exit
    log,        \* history: the steps executed, each with its outcome
    made,       \* history: every path created or written, with the step
    fs0,        \* history: the disk and working directory at start
    call,       \* the arguments of the function under test (unit specs)
    aliasOut    \* the value getAlias returned (unit spec)

vars == <<variant, name, cwd, dirs, files, umask, cmds, homeOk, sshState,
          sshPad, sshBlock, pc, exitCode, errMsg, log, made, fs0, call,
          aliasOut>>

-----------------------------------------------------------------------------
(* Bounds of the model. *)

\* Length of every template's content (the templates are opaque payload).
TemplateLen == 2
\* How far before the read budget the last block of the config may start.
PadSlack == 30

-----------------------------------------------------------------------------
(* Names in the source. *)

DefaultProjectName == <<"n","e","w","_","p","r","o","j","e","c","t">>
GolintciFile == <<".","g","o","l","i","n","t","c","i",".","y","m","l">>
GoreleaserFile == <<".","g","o","r","e","l","e","a","s","e","r",".","y","m","l">>
GitignoreFile == <<".","g","i","t","i","g","n","o","r","e">>
Makefile == <<"M","a","k","e","f","i","l","e">>
GithubDir == <<".","g","i","t","h","u","b">>
WorkflowsDir == <<".","g","i","t","h","u","b","/","w","o","r","k","f","l","o","w","s">>
ReleaserFile == <<".","g","i","t","h","u","b","/","w","o","r","k","f","l","o","w","s","/","r","e","l","e","a","s","e","r",".","y","m","l">>
GitHooksDir == <<".","g","i","t","/","h","o","o","k","s">>
ScriptsDir == <<"s","c","r","i","p","t","s">>
PreCommitScriptFile == <<"s","c","r","i","p","t","s","/","p","r","e","-","c","o","m","m","i","t">>
SetupScriptFile == <<"s","c","r","i","p","t","s","/","s","e","t","u","p",".","s","h">>
CIBuildScriptFile == <<"s","c","r","i","p","t","s","/","c","i","b","u","i","l","d",".","s","h">>
PreCommitHookFile == <<"p","r","e","-","c","o","m","m","i","t">>

GolintciTemplate == "templates/.golangci.yml"
GoreleaserTemplate == "templates/.goreleaser.yml"
GitignoreTemplate == "templates/.gitignore"
MakefileTemplate == "templates/Makefile"
ReleaserTemplate == "templates/releaser.yml"
PreCommitHookTemplate == "templates/scripts/pre-commit"
PreCommitScriptTemplate == "templates/scripts/pre-commit"
SetupScriptTemplate == "templates/scripts/setup.sh"
CIBuildScriptTemplate == "templates/scripts/cibuild.sh"

DefaultAlias == "project/"
\* RegexpPattern: `Host github\.com\n\s+User (?P<user>\w+)`
HostLiteral == <<"H","o","s","t"," ","g","i","t","h","u","b",".","c","o","m","\n">>
UserLiteral == <<"U","s","e","r"," ">>
\* make([]byte, 1024)
ReadBudget == 1024
\* os.Create opens with 0666 (before the umask); os.Chmod(name, 0o700).
CreatePerm == 438
ExecPerm == 448

-----------------------------------------------------------------------------
(* Strings, paths and errors. *)

RECURSIVE Str(_)
\* string(bytes): the characters as one string
Str(s) == IF s = <<>> THEN "" ELSE Head(s) \o Str(Tail(s))

RECURSIVE SplitAcc(_, _, _)
SplitAcc(s, cur, acc) ==
    IF s = <<>> THEN (IF cur = "" THEN acc ELSE Append(acc, cur))
    ELSE IF Head(s) = "/"
         THEN SplitAcc(Tail(s), "", IF cur = "" THEN acc ELSE Append(acc, cur))
         ELSE SplitAcc(Tail(s), cur \o Head(s), acc)

\* The components of a name; empty components (a leading, doubled or
\* trailing separator) are dropped.
Split(n) == SplitAcc(n, "", <<>>)

IsAbs(n) == n # <<>> /\ Head(n) = "/"

\* What the operating system resolves a name to (os.Stat, os.Chdir,
\* os.Create, os.Chmod): an absolute name from the root, any other from
\* the working directory.
Resolve(st, n) == IF IsAbs(n) THEN Split(n) ELSE st.cwd \o Split(n)

\* filepath.Join(pwd, name): the elements joined by a separator and cleaned,
\* so a leading separator of name does not make the result restart at the root.
Join(pwd, n) == pwd \o Split(n)

Parent(p) == IF p = <<>> THEN <<>> ELSE SubSeq(p, 1, Len(p) - 1)

\* An error is its chain of contexts (outermost first) and its root cause.
Nil == [ctx |-> <<>>, cause |-> ""]
IsErr(e) == e # Nil
Cause(c) == [ctx |-> <<>>, cause |-> c]
\* fmt.Errorf(ctx + ": %w", err)
Errorf(c, e) == [ctx |-> <<c>> \o e.ctx, cause |-> e.cause]
\* fmt.Errorf("...: %w", nil) formats the nil operand as %!w(<nil>)
NilOperand == Cause("%!w(<nil>)")

\* A fault the environment injects into the op-th failable call of a step;
\* n is the number of bytes a failing write still wrote.
NoFault == [op |-> 0, kind |-> "none", n |-> 0]
FaultKinds == {"getwd", "mkdir", "chdir", "run", "create", "read", "write", "chmod"}
Faults ==
    {f \in [op : 1..4, kind : FaultKinds, n : 0..(TemplateLen - 1)] :
        f.kind # "write" => f.n = 0}

-----------------------------------------------------------------------------
(* The operating system and the external tools. *)

RECURSIVE AndNot(_, _, _)
\* a &^ m on the low k bits
AndNot(a, m, k) ==
    IF k = 0 THEN 0
    ELSE (IF a % 2 = 1 /\ m % 2 = 0 THEN 1 ELSE 0) + 2 * AndNot(a \div 2, m \div 2, k - 1)

OwnerExec(mode) == (mode \div 64) % 2 = 1

\* The mode of a file the process creates with 0666.
NewFileMode(st) == AndNot(CreatePerm, st.umask, 9)

Exists(st, p) == p \in st.dirs \/ p \in DOMAIN st.files

\* os.Stat(name) returns a nil error
Stat(st, n) == Exists(st, Resolve(st, n))

\* os.Mkdir(path, os.ModePerm)
OsMkdir(st, p, fails) ==
    IF fails THEN [st |-> st, err |-> Cause("EACCES")]
    ELSE IF Exists(st, p) THEN [st |-> st, err |-> Cause("EEXIST")]
    ELSE IF Parent(p) \notin st.dirs THEN [st |-> st, err |-> Cause("ENOENT")]
    ELSE [st |-> [st EXCEPT !.dirs = @ \cup {p}], err |-> Nil]

OsChdirTo(st, p, fails) ==
    IF fails THEN [st |-> st, err |-> Cause("EACCES")]
    ELSE IF p \notin st.dirs THEN [st |-> st, err |-> Cause("ENOENT")]
    ELSE [st |-> [st EXCEPT !.cwd = p], err |-> Nil]

\* os.Chdir(name)
OsChdir(st, n, fails) == OsChdirTo(st, Resolve(st, n), fails)

\* The file os.Create leaves at p: empty; one that was there keeps its mode.
Truncated(st, p) ==
    IF p \in DOMAIN st.files
    THEN [content |-> <<>>, mode |-> st.files[p].mode, by |-> st.files[p].by]
    ELSE [content |-> <<>>, mode |-> NewFileMode(st), by |-> "program"]

OsCreateAt(st, p, fails) ==
    IF fails THEN [st |-> st, err |-> Cause("EACCES")]
    ELSE IF p \in st.dirs THEN [st |-> st, err |-> Cause("EISDIR")]
    ELSE IF Parent(p) \notin st.dirs THEN [st |-> st, err |-> Cause("ENOENT")]
    ELSE [st |-> [st EXCEPT !.files = (p :> Truncated(st, p)) @@ @], err |-> Nil]

\* os.Create(name): O_RDWR|O_CREATE|O_TRUNC with 0666
OsCreate(st, n, fails) == OsCreateAt(st, Resolve(st, n), fails)

\* file.Write(bytes) on the file os.Create opened at p: all of bytes, or on
\* a failure only the first k of them.
FileWrite(st, p, bytes, fails, k) ==
    IF fails
    THEN [st |-> [st EXCEPT !.files[p].content = SubSeq(bytes, 1, k)],
          err |-> Cause("ENOSPC")]
    ELSE [st |-> [st EXCEPT !.files[p].content = bytes], err |-> Nil]

OsChmodAt(st, p, mode, fails) ==
    IF fails THEN [st |-> st, err |-> Cause("EPERM")]
    ELSE IF p \notin DOMAIN st.files THEN [st |-> st, err |-> Cause("ENOENT")]
    ELSE [st |-> [st EXCEPT !.files[p].mode = mode], err |-> Nil]

\* os.Chmod(name, mode)
OsChmod(st, n, mode, fails) == OsChmodAt(st, Resolve(st, n), mode, fails)

\* The content of an embedded template: opaque bytes that name their template.
TemplateContent(key) == [i \in 1..TemplateLen |-> <<key, i>>]

\* fs.ReadFile(filePath) on an embed.FS
EmbedReadFile(key, fails) ==
    IF fails THEN [bytes |-> <<>>, err |-> Cause("ErrNotExist")]
    ELSE [bytes |-> TemplateContent(key), err |-> Nil]

\* What a tool that ran successfully leaves in the working directory.
ToolEffect(st, prog, args) ==
    IF prog = "git" /\ args = <<"init">>
    THEN [st EXCEPT !.dirs = @ \cup {st.cwd \o <<".git">>, st.cwd \o <<".git", "hooks">>},
                    !.files = (st.cwd \o <<".git", "HEAD">>
                                 :> [content |-> <<"ref">>, mode |-> NewFileMode(st), by |-> "git"]) @@ @]
    ELSE IF prog = "go" /\ Len(args) = 3 /\ args[1] = "mod"
    THEN [st EXCEPT !.files = (st.cwd \o <<"go.mod">>
                                 :> [content |-> <<args[3]>>, mode |-> NewFileMode(st), by |-> "go"]) @@ @]
    ELSE st

\* The state with one more command on record: what ran, where, and whether
\* it succeeded.
Ran(st, prog, args, ok) ==
    [st EXCEPT !.cmds = Append(@, [prog |-> prog, args |-> args, dir |-> st.cwd, ok |-> ok])]

\* exec.Command(name, arg...).Run() (or .CombinedOutput())
runCommand(st, prog, args, fails) ==
    IF fails THEN [st |-> Ran(st, prog, args, FALSE), err |-> Cause("exit status 1")]
    ELSE [st |-> ToolEffect(Ran(st, prog, args, TRUE), prog, args), err |-> Nil]

-----------------------------------------------------------------------------
(* The alias resolver. *)

\* The configuration file: pad filler bytes, then the block.
SshContent(env) ==
    [i \in 1..(env.pad + Len(env.block)) |->
        IF i <= env.pad THEN "#" ELSE env.block[i - env.pad]]

\* file.Read(bytes) into a buffer of ReadBudget bytes: io.EOF on an empty file
ReadInto(c, n) ==
    IF n = 0 THEN [s |-> <<>>, err |-> Cause("EOF")]
    ELSE [s |-> SubSeq(c, 1, n), err |-> Nil]

\* readFile(path)
readFile(env) ==
    IF env.state # "present" THEN [s |-> <<>>, err |-> Cause("open")]
    ELSE ReadInto(SshContent(env),
                  IF env.pad + Len(env.block) < ReadBudget
                  THEN env.pad + Len(env.block) ELSE ReadBudget)

\* \s and \w of Go's regexp syntax
IsSpace(c) == c \in {" ", "\t", "\n", "\r", "\f"}
IsWord(c) == c \in {"0","1","2","3","4","5","6","7","8","9","A","B","C","D","E","F","G","H","I","J","K","L","M","N","O","P","Q","R","S","T","U","V","W","X","Y","Z","_","a","b","c","d","e","f","g","h","i","j","k","l","m","n","o","p","q","r","s","t","u","v","w","x","y","z"}

LitAt(s, i, lit) ==
    /\ i + Len(lit) - 1 <= Len(s)
    /\ \A k \in 1..Len(lit) : s[i + k - 1] = lit[k]

\* `\s*` from j: the end (exclusive) of the longest run of white space.
SpaceEnd(s, j) ==
    CHOOSE e \in j..(Len(s) + 1) :
        /\ \A k \in j..(e - 1) : IsSpace(s[k])
        /\ (e = Len(s) + 1 \/ ~IsSpace(s[e]))

\* `\w*` from j: the end (exclusive) of the longest run of word characters.
WordEnd(s, j) ==
    CHOOSE e \in j..(Len(s) + 1) :
        /\ \A k \in j..(e - 1) : IsWord(s[k])
        /\ (e = Len(s) + 1 \/ ~IsWord(s[e]))

\* `\s+User (?P<user>\w+)` matches s from j, the white space ending at u.
UserAt(s, j, u) ==
    /\ u > j
    /\ LitAt(s, u, UserLiteral)
    /\ WordEnd(s, u + Len(UserLiteral)) > u + Len(UserLiteral)

\* RegexpPattern matches s from position i.
MatchAt(s, i) ==
    /\ LitAt(s, i, HostLiteral)
    /\ UserAt(s, i + Len(HostLiteral), SpaceEnd(s, i + Len(HostLiteral)))

\* The match from i whose capture group starts at u and ends before e.
Groups(s, i, u, e) == <<Str(SubSeq(s, i, e - 1)), Str(SubSeq(s, u, e - 1))>>

GroupsFrom(s, i, u) == Groups(s, i, u, WordEnd(s, u))

SubmatchAt(s, i) ==
    GroupsFrom(s, i, SpaceEnd(s, i + Len(HostLiteral)) + Len(UserLiteral))

\* re.FindStringSubmatch(input): the leftmost match and its capture group,
\* or the empty slice.
FindStringSubmatch(s) ==
    IF \E i \in 1..Len(s) : MatchAt(s, i)
    THEN SubmatchAt(s, CHOOSE a \in 1..Len(s) :
                          MatchAt(s, a) /\ \A b \in 1..(a - 1) : ~MatchAt(s, b))
    ELSE <<>>

AliasOfMatch(match) ==
    IF Len(match) < 2 THEN DefaultAlias ELSE "github.com/" \o match[2] \o "/"

AliasOfRead(r) ==
    IF IsErr(r.err) THEN DefaultAlias ELSE AliasOfMatch(FindStringSubmatch(r.s))

getAlias(env) == IF ~env.homeOk THEN DefaultAlias ELSE AliasOfRead(readFile(env))

-----------------------------------------------------------------------------
(* The filesystem materializer. *)

\* A result with its error, when there is one, put inside the contexts cs.
WrapAll(cs, r) ==
    IF IsErr(r.err)
    THEN [st |-> r.st, err |-> [ctx |-> cs \o r.err.ctx, cause |-> r.err.cause]]
    ELSE r

\* The fault when it is aimed at call op of the step, else none.
Aim(fault, op) == IF fault.op = op THEN fault ELSE NoFault

ExistsContext(v) ==
    CASE v = "v1" -> "project already exist"
      [] v \in {"v2", "v3"} -> "project already exists"
      [] OTHER -> "folder already exists"

\* mkdir with the existence check lost: an existing name is taken as made.
mkdirUnchecked(v, st, n, fk) ==
    IF Stat(st, n) THEN [st |-> st, err |-> Nil]
    ELSE IF fk = "getwd"
    THEN [st |-> st,
          err |-> IF v = "v1" THEN Cause("ENOENT")
                  ELSE Errorf("error getting current working directory", Cause("ENOENT"))]
    ELSE WrapAll(<<"error creating folder">>, OsMkdir(st, Join(st.cwd, n), fk = "mkdir"))

\* mkdir(name); fk is the fault of this call
mkdir(v, st, n, fk) ==
    IF Stat(st, n) THEN [st |-> st, err |-> Errorf(ExistsContext(v), NilOperand)]
    ELSE IF fk = "getwd"
    THEN [st |-> st,
          err |-> IF v = "v1" THEN Cause("ENOENT")
                  ELSE Errorf("error getting current working directory", Cause("ENOENT"))]
    ELSE WrapAll(<<"error creating folder">>, OsMkdir(st, Join(st.cwd, n), fk = "mkdir"))

ReadContext(v) == IF v = "v1" THEN "error" ELSE "error reading embedded file"
WriteContext(v) == IF v = "v1" THEN "error" ELSE "error writing to file"

\* The rest of createFile with a cleanup: a failure removes the file.
WriteTemplateCleanup(v, st, p, rd, fault) ==
    IF IsErr(rd.err) \/ fault.kind = "write"
    THEN [st |-> [st EXCEPT !.files = [q \in (DOMAIN st.files) \ {p} |-> st.files[q]]],
          err |-> Errorf(WriteContext(v), Cause("ENOSPC"))]
    ELSE WrapAll(<<WriteContext(v)>>, FileWrite(st, p, rd.bytes, FALSE, fault.n))

\* The rest of createFile once os.Create has left st: the template is read
\* (rd) and written.
WriteTemplate(v, st, p, rd, fault) ==
    IF IsErr(rd.err) THEN [st |-> st, err |-> Errorf(ReadContext(v), rd.err)]
    ELSE WrapAll(<<WriteContext(v)>>,
                 FileWrite(st, p, rd.bytes, fault.kind = "write", fault.n))

\* createFile after os.Create, whose result is r: its error is returned,
\* else the template is read and written.
WriteCreated(v, r, n, key, fault) ==
    IF IsErr(r.err) THEN r
    ELSE WriteTemplate(v, r.st, Resolve(r.st, n),
                       EmbedReadFile(key, fault.kind = "read"), fault)

\* createFile(name, fs, filePath) (createLintConfig and createGitIgnore in
\* v1); fault is the fault of this call
createFile(v, st, n, key, fault) ==
    WriteCreated(v, WrapAll(<<"error creating file">>,
                            OsCreate(st, n, fault.kind = "create")), n, key, fault)

\* After createFile, whose result is r: its error is returned, else
\* os.Chmod(name, 0o700).
ChmodCreated(r, n, fails, chmodContext) ==
    IF IsErr(r.err) THEN r
    ELSE WrapAll(<<chmodContext>>, OsChmod(r.st, n, ExecPerm, fails))

\* createFile with its error inside createContexts, then
\* os.Chmod(name, 0o700) with its error inside chmodContext
createAndChmod(v, st, n, key, fault, createContexts, chmodContext) ==
    ChmodCreated(WrapAll(createContexts, createFile(v, st, n, key, fault)),
                 n, fault.kind = "chmod", chmodContext)

\* createExecutableFile(name, fs, filePath)
createExecutableFile(v, st, n, key, fault) ==
    createAndChmod(v, st, n, key, fault, <<>>, "error making " \o Str(n) \o " executable")

\* The embedded template of the pre-commit hook.
HookTemplate(v) == IF v \in {"v1", "v2"} THEN "pre-commit.sh" ELSE PreCommitHookTemplate

\* createPreCommitHook() once it has changed into .git/hooks
writeHook(v, st, fault) ==
    CASE v = "v1" -> createFile(v, st, PreCommitHookFile, HookTemplate(v), fault)
      [] v \in {"v2", "v3"} ->
            createAndChmod(v, st, PreCommitHookFile, HookTemplate(v), fault,
                           <<>>, "error making file executable")
      [] OTHER ->
            WrapAll(<<"error creating " \o Str(PreCommitHookFile)>>,
                    createExecutableFile(v, st, PreCommitHookFile, HookTemplate(v), fault))

\* createPreCommitHook() after os.Chdir, whose result is r
HookAfterChdir(v, r, fault) == IF IsErr(r.err) THEN r ELSE writeHook(v, r.st, fault)

\* createPreCommitHook()
createPreCommitHook(v, st, fault) ==
    HookAfterChdir(v, WrapAll(<<IF v = "v1" THEN "error cd into git"
                                ELSE "error changing to .git/hooks directory">>,
                              OsChdir(st, GitHooksDir, Aim(fault, 1).kind = "chdir")),
                   Aim(fault, 2))

\* One script of createScripts: in v3 pre-commit is created and not made
\* executable, the other two are; in v4 all three are.
createScript(v, st, n, key, fault, v3Context) ==
    IF v = "v3"
    THEN IF n = PreCommitScriptFile
         THEN WrapAll(<<v3Context>>, createFile(v, st, n, key, fault))
         ELSE createAndChmod(v, st, n, key, fault, <<v3Context>>,
                             "error making file executable")
    ELSE WrapAll(<<"error creating " \o Str(n)>>, createExecutableFile(v, st, n, key, fault))

\* createScripts() after a call whose result is r: its error is returned,
\* else the next script is created.
NextScript(v, r, n, key, fault, v3Context) ==
    IF IsErr(r.err) THEN r ELSE createScript(v, r.st, n, key, fault, v3Context)

\* createScripts()
createScripts(v, st, fault) ==
    NextScript(v,
        NextScript(v,
            NextScript(v, mkdir(v, st, ScriptsDir, Aim(fault, 1).kind),
                       PreCommitScriptFile, PreCommitScriptTemplate,
                       Aim(fault, 2), "error creating pre-commit file"),
            SetupScriptFile, SetupScriptTemplate,
            Aim(fault, 3), "error creating setup file"),
        CIBuildScriptFile, CIBuildScriptTemplate,
        Aim(fault, 4), "error creating cibuild file")

\* createGithubAction() after mkdir(GithubDir), whose result is r
WorkflowsAfter(v, r, fk) ==
    IF IsErr(r.err) THEN r
    ELSE WrapAll(<<"error creating " \o Str(WorkflowsDir)>>,
                 mkdir(v, r.st, WorkflowsDir, fk))

\* createGithubAction() after mkdir(WorkflowsDir), whose result is r
ReleaserAfter(v, r, fault) ==
    IF IsErr(r.err) THEN r
    ELSE WrapAll(<<"error creating " \o Str(ReleaserFile)>>,
                 createFile(v, r.st, ReleaserFile, ReleaserTemplate, fault))

\* createGithubAction()
createGithubAction(v, st, fault) ==
    ReleaserAfter(v,
        WorkflowsAfter(v, WrapAll(<<"error creating " \o Str(GithubDir)>>,
                                  mkdir(v, st, GithubDir, Aim(fault, 1).kind)),
                       Aim(fault, 2).kind),
        Aim(fault, 3))

-----------------------------------------------------------------------------
(* The subprocess runner. *)

\* initRepo() (runCommand("git", "init") in v4)
initRepo(v, st, fk) ==
    WrapAll(CASE v = "v1" -> <<"error git init">>
              [] v \in {"v2", "v3"} -> <<"error initializing repository">>
              [] OTHER -> <<>>,
            runCommand(st, "git", <<"init">>, fk = "run"))

\* The module name without the alias, in every version.
ModuleNameBare(v, env, n) == Str(n)

\* The module name goModInit passes to go mod init.
ModuleName(v, env, n) ==
    IF v \in {"v3", "v4"} THEN getAlias(env) \o Str(n) ELSE Str(n)

\* goModInit(name)
goModInit(v, env, st, n, fk) ==
    WrapAll(CASE v = "v1" -> <<"error init go module">>
              [] v \in {"v2", "v3"} -> <<"error initializing Go module">>
              [] OTHER -> <<>>,
            runCommand(st, "go", <<"mod", "init", ModuleName(v, env, n)>>, fk = "run"))

\* The probe with its outcome ignored.
ProbedIgnored(v, r) == [st |-> r.st, err |-> Nil]

\* What main makes of the go version probe: v3 logs the error itself, v4
\* (isGoInstalled) a fixed message.
Probed(v, r) ==
    IF IsErr(r.err) /\ v = "v4"
    THEN [st |-> r.st, err |-> [ctx |-> <<"Go is not installed.">>, cause |-> ""]]
    ELSE r

preflight(v, st, fk) == Probed(v, runCommand(st, "go", <<"version">>, fk = "run"))

-----------------------------------------------------------------------------
(* The orchestrator. *)

Variants == {"v1", "v2", "v3", "v4"}

\* The steps of main and createProjectFiles, in the order of their calls.
Steps(v) ==
    CASE v = "v1" -> <<"mkdir", "chdir", "initRepo", "goModInit", "lint",
                       "createPreCommitHook", "gitignore">>
      [] v = "v2" -> <<"mkdir", "chdir", "initRepo", "goModInit", "lint", "gitignore",
                       "createPreCommitHook">>
      [] v = "v3" -> <<"preflight", "mkdir", "chdir", "initRepo", "goModInit", "lint",
                       "gitignore", "makefile", "createScripts", "createPreCommitHook">>
      [] OTHER    -> <<"preflight", "mkdir", "chdir", "initRepo", "goModInit", "lint",
                       "goreleaser", "gitignore", "makefile", "createScripts",
                       "createGithubAction", "createPreCommitHook">>

FixedFileSteps == {"lint", "goreleaser", "gitignore", "makefile"}

\* The targets with the build file's step writing the ignore file again.
FileNameRepeated(step) ==
    CASE step = "lint" -> GolintciFile
      [] step = "goreleaser" -> GoreleaserFile
      [] OTHER -> GitignoreFile

\* The target and the template of a fixed-file step.
FileName(step) ==
    CASE step = "lint" -> GolintciFile
      [] step = "goreleaser" -> GoreleaserFile
      [] step = "gitignore" -> GitignoreFile
      [] OTHER -> Makefile

FileTemplate(v, step) ==
    CASE step = "lint" -> IF v \in {"v1", "v2"} THEN ".golangci.yml" ELSE GolintciTemplate
      [] step = "goreleaser" -> GoreleaserTemplate
      [] step = "gitignore" -> IF v \in {"v1", "v2"} THEN ".gitignore" ELSE GitignoreTemplate
      [] OTHER -> MakefileTemplate

\* The context createProjectFiles puts around the error of a step.
ProjectFilesContext(v, step) ==
    CASE v = "v1" -> <<>>
      [] step = "chdir" -> <<"error changing to project directory">>
      [] step = "initRepo" -> <<"error initializing repository">>
      [] step = "goModInit" -> <<"error initializing Go module">>
      [] step = "createScripts" -> <<"error creating scripts">>
      [] step = "createGithubAction" -> <<"error creating github actions">>
      [] step = "createPreCommitHook" -> <<"error creating pre-commit hook">>
      [] step \in FixedFileSteps /\ v = "v4" -> <<"error creating " \o Str(FileName(step))>>
      [] step = "lint" -> <<"error creating linting configuration file">>
      [] step \in {"gitignore", "makefile"} -> <<"error creating .gitignore file">>
      [] OTHER -> <<>>

\* The context main puts before the error it logs.
MainContext(v, step) ==
    CASE v # "v4" \/ step = "preflight" -> <<>>
      [] step = "mkdir" -> <<"Error creating directory">>
      [] OTHER -> <<"Error creating project files">>

StepContext(v, step) == MainContext(v, step) \o ProjectFilesContext(v, step)

\* One step of the program from state st under a fault: the state it
\* leaves and the error main sees.
RunStep(v, step, n, env, st, fault) ==
    WrapAll(StepContext(v, step),
        CASE step = "preflight" -> preflight(v, st, Aim(fault, 1).kind)
          [] step = "mkdir" -> mkdir(v, st, n, Aim(fault, 1).kind)
          [] step = "chdir" -> OsChdir(st, n, Aim(fault, 1).kind = "chdir")
          [] step = "initRepo" -> initRepo(v, st, Aim(fault, 1).kind)
          [] step = "goModInit" -> goModInit(v, env, st, n, Aim(fault, 1).kind)
          [] step \in FixedFileSteps ->
                createFile(v, st, FileName(step), FileTemplate(v, step), Aim(fault, 1))
          [] step = "createScripts" -> createScripts(v, st, fault)
          [] step = "createGithubAction" -> createGithubAction(v, st, fault)
          [] OTHER -> createPreCommitHook(v, st, fault))

\* An error that is not checked.
HaltsNever(err) == FALSE

\* if err != nil { log.Fatal(err) } (return err in createProjectFiles)
Halts(err) == IsErr(err)

St == [cwd |-> cwd, dirs |-> dirs, files |-> files, cmds |-> cmds, umask |-> umask]
Env == [homeOk |-> homeOk, state |-> sshState, pad |-> sshPad, block |-> sshBlock]

Running == exitCode = -1 /\ pc <= Len(Steps(variant))
CurrentStep == Steps(variant)[pc]

\* The paths a step created or wrote.
Touched(st) ==
    (st.dirs \ dirs) \cup
    {q \in DOMAIN st.files : q \notin DOMAIN files \/ st.files[q] # files[q]}

\* The program takes the step at pc: the disk, the commands and the history
\* follow the step; an error ends the process with status 1 and the end of the
\* last step ends it with status 0.
Take(step, r) ==
    /\ cwd' = r.st.cwd
    /\ dirs' = r.st.dirs
    /\ files' = r.st.files
    /\ cmds' = r.st.cmds
    /\ log' = Append(log, [step |-> step, ok |-> ~IsErr(r.err)])
    /\ made' = made \cup {[path |-> p, step |-> step] : p \in Touched(r.st)}
    /\ IF Halts(r.err)
       THEN /\ exitCode' = 1
            /\ errMsg' = r.err
            /\ pc' = pc
       ELSE /\ exitCode' = IF pc + 1 > Len(Steps(variant)) THEN 0 ELSE -1
            /\ errMsg' = errMsg
            /\ pc' = pc + 1
    /\ UNCHANGED <<variant, name, umask, homeOk, sshState, sshPad, sshBlock, fs0,
                   call, aliasOut>>

\* The calls of a step that can fail, and how each can.
StepOps(step) ==
    CASE step = "createScripts" -> 1..4
      [] step = "createGithubAction" -> 1..3
      [] step = "createPreCommitHook" -> 1..2
      [] OTHER -> 1..1

StepKinds(step) ==
    CASE step \in {"preflight", "initRepo", "goModInit"} -> {"run"}
      [] step = "mkdir" -> {"getwd", "mkdir"}
      [] step = "chdir" -> {"chdir"}
      [] step \in FixedFileSteps -> {"create", "read", "write"}
      [] step = "createScripts" -> {"getwd", "mkdir", "create", "read", "write", "chmod"}
      [] step = "createGithubAction" -> {"getwd", "mkdir", "create", "read", "write"}
      [] OTHER -> {"chdir", "create", "read", "write", "chmod"}

StepFaults(step) ==
    {NoFault} \cup {f \in Faults : f.op \in StepOps(step) /\ f.kind \in StepKinds(step)}

Preflight ==
    /\ Running
    /\ CurrentStep = "preflight"
    /\ \E fault \in StepFaults("preflight") :
          Take("preflight", RunStep(variant, "preflight", name, Env, St, fault))

MkdirRoot ==
    /\ Running
    /\ CurrentStep = "mkdir"
    /\ \E fault \in StepFaults("mkdir") :
          Take("mkdir", RunStep(variant, "mkdir", name, Env, St, fault))

ChdirRoot ==
    /\ Running
    /\ CurrentStep = "chdir"
    /\ \E fault \in StepFaults("chdir") :
          Take("chdir", RunStep(variant, "chdir", name, Env, St, fault))

InitRepo ==
    /\ Running
    /\ CurrentStep = "initRepo"
    /\ \E fault \in StepFaults("initRepo") :
          Take("initRepo", RunStep(variant, "initRepo", name, Env, St, fault))

GoModInit ==
    /\ Running
    /\ CurrentStep = "goModInit"
    /\ \E fault \in StepFaults("goModInit") :
          Take("goModInit", RunStep(variant, "goModInit", name, Env, St, fault))

CreateFixedFile ==
    /\ Running
    /\ CurrentStep \in FixedFileSteps
    /\ \E fault \in StepFaults(CurrentStep) :
          Take(CurrentStep, RunStep(variant, CurrentStep, name, Env, St, fault))

CreateScripts ==
    /\ Running
    /\ CurrentStep = "createScripts"
    /\ \E fault \in StepFaults("createScripts") :
          Take("createScripts", RunStep(variant, "createScripts", name, Env, St, fault))

CreateGithubAction ==
    /\ Running
    /\ CurrentStep = "createGithubAction"
    /\ \E fault \in StepFaults("createGithubAction") :
          Take("createGithubAction",
               RunStep(variant, "createGithubAction", name, Env, St, fault))

CreatePreCommitHook ==
    /\ Running
    /\ CurrentStep = "createPreCommitHook"
    /\ \E fault \in StepFaults("createPreCommitHook") :
          Take("createPreCommitHook",
               RunStep(variant, "createPreCommitHook", name, Env, St, fault))

-----------------------------------------------------------------------------
(* The runs checked. *)

WorkDir == <<"work">>
Demo == <<"d","e","m","o">>
AbsDemo == <<"/","d","e","m","o">>
\* -d demo, -d /demo, or no flag
Names == {Demo, AbsDemo, DefaultProjectName}
\* Directories that may be there before the run.
PreExisting == {{}, {<<"work", "demo">>}, {<<"demo">>}, {<<"work", "new_project">>}}
\* umask 022 and 077
Umasks == {18, 63}

BlockGood == <<"H","o","s","t"," ","g","i","t","h","u","b",".","c","o","m","\n"," "," ","U","s","e","r"," ","a","l","e","x","\n">>
BlockOther == <<"H","o","s","t"," ","g","i","t","l","a","b",".","c","o","m","\n"," "," ","U","s","e","r"," ","a","l","e","x","\n">>
BlockNoIndent == <<"H","o","s","t"," ","g","i","t","h","u","b",".","c","o","m","\n","U","s","e","r"," ","a","l","e","x","\n">>
BlockNoUser == <<"H","o","s","t"," ","g","i","t","h","u","b",".","c","o","m","\n"," "," ","P","o","r","t"," ","2","2","\n">>

NoCall == [fn |-> "none"]

\* The configurations of the whole-program runs: no home directory, no
\* configuration file, and a github.com block at the start of the file.
MainEnvs ==
    {[homeOk |-> FALSE, state |-> "missing", pad |-> 0, block |-> <<>>],
     [homeOk |-> TRUE, state |-> "missing", pad |-> 0, block |-> <<>>],
     [homeOk |-> TRUE, state |-> "present", pad |-> 0, block |-> BlockGood]}

Init ==
    /\ variant \in Variants
    /\ name \in Names
    /\ cwd = WorkDir
    /\ \E pre \in PreExisting : dirs = {<<>>, WorkDir} \cup pre
    /\ files = <<>>
    /\ umask \in Umasks
    /\ cmds = <<>>
    /\ \E e \in MainEnvs :
          homeOk = e.homeOk /\ sshState = e.state /\ sshPad = e.pad /\ sshBlock = e.block
    /\ pc = 1
    /\ exitCode = -1
    /\ errMsg = Nil
    /\ log = <<>>
    /\ made = {}
    /\ fs0 = [cwd |-> cwd, dirs |-> dirs, files |-> files]
    /\ call = NoCall
    /\ aliasOut = ""

Next ==
    \/ Preflight
    \/ MkdirRoot
    \/ ChdirRoot
    \/ InitRepo
    \/ GoModInit
    \/ CreateFixedFile
    \/ CreateScripts
    \/ CreateGithubAction
    \/ CreatePreCommitHook

Spec == Init /\ [][Next]_vars

-----------------------------------------------------------------------------
(* Properties of the whole program. *)

\* The project directory main asks for: the working directory at start
\* joined with the name.
Root == fs0.cwd \o Split(name)

\* The path the name denotes at start.
NamedAtStart == IF IsAbs(name) THEN Split(name) ELSE fs0.cwd \o Split(name)

Under(root, rels) == {root \o r : r \in rels}

\* The files the program itself wrote (not git, not go).
ProgramFiles == {p \in DOMAIN files : files[p].by = "program"}

\* The paths the run created or wrote.
MadePaths == {m.path : m \in made}

Executed(step) == \E i \in 1..Len(log) : log[i].step = step

DiskAsAtStart == dirs = fs0.dirs /\ files = fs0.files /\ cwd = fs0.cwd

AlreadyExistsContexts ==
    {"project already exist", "project already exists", "folder already exists"}

\* C1: when the directory the name denotes exists at start, mkdir returns a
\* non-nil already-exists error and changes nothing: the run never exits 0,
\* exits 1 as soon as mkdir has run, and the disk and the working directory
\* stay as they were at start.
C1_ExistingDirectoryRefused ==
    NamedAtStart \in fs0.dirs =>
        /\ DiskAsAtStart
        /\ exitCode # 0
        /\ Executed("mkdir") =>
              /\ exitCode = 1
              /\ log[Len(log)] = [step |-> "mkdir", ok |-> FALSE]
              /\ errMsg.ctx # <<>>
              /\ errMsg.ctx[Len(errMsg.ctx)] \in AlreadyExistsContexts

C1_Witness ==
    /\ NamedAtStart \in fs0.dirs
    /\ Executed("mkdir")
    /\ exitCode = 1

\* What each step is to leave under the project root.
Artifacts(step) ==
    Under(Root,
        CASE step = "mkdir" -> {<<>>}
          [] step = "initRepo" -> {<<".git">>, <<".git", "hooks">>}
          [] step = "goModInit" -> {<<"go.mod">>}
          [] step = "lint" -> {<<".golintci.yml">>}
          [] step = "goreleaser" -> {<<".goreleaser.yml">>}
          [] step = "gitignore" -> {<<".gitignore">>}
          [] step = "makefile" -> {<<"Makefile">>}
          [] step = "createScripts" ->
                {<<"scripts">>, <<"scripts", "pre-commit">>, <<"scripts", "setup.sh">>,
                 <<"scripts", "cibuild.sh">>}
          [] step = "createGithubAction" ->
                {<<".github">>, <<".github", "workflows">>,
                 <<".github", "workflows", "releaser.yml">>}
          [] step = "createPreCommitHook" -> {<<".git", "hooks", "pre-commit">>}
          [] OTHER -> {})

\* C3: the steps run in order, each at most once; a step that fails is the
\* last one executed and the process exits 1; then nothing a later step is
\* to leave has been created, and everything the steps before it left is
\* still on disk.
C3_FailFastNoRollback ==
    /\ Len(log) <= Len(Steps(variant))
    /\ \A i \in 1..Len(log) :
          /\ log[i].step = Steps(variant)[i]
          /\ ~log[i].ok => (i = Len(log) /\ exitCode = 1)
    /\ exitCode = 1 =>
          /\ ~log[Len(log)].ok
          /\ \A j \in (Len(log) + 1)..Len(Steps(variant)) :
                Artifacts(Steps(variant)[j]) \cap MadePaths = {}
          /\ \A i \in 1..(Len(log) - 1) :
                Artifacts(log[i].step) \subseteq (dirs \cup DOMAIN files)

C3_Witness ==
    /\ exitCode = 1
    /\ log[Len(log)] = [step |-> "goModInit", ok |-> FALSE]
    /\ Root \o <<".git", "hooks">> \in dirs
    /\ Root \o <<"go.mod">> \notin DOMAIN files

ProbeFailed ==
    \E i \in 1..Len(cmds) :
        cmds[i].prog = "go" /\ cmds[i].args = <<"version">> /\ ~cmds[i].ok

\* C6: in the versions that probe go version (v3, v4), a failed probe ends
\* the process with status 1 with the disk and the working directory as at
\* start and no other command run.
C6_PreflightAbortsBeforeMutation ==
    ProbeFailed =>
        /\ exitCode = 1
        /\ DiskAsAtStart
        /\ Len(cmds) = 1
        /\ made = {}

C6_Witness == ProbeFailed /\ variant \in {"v3", "v4"} /\ exitCode = 1

\* The files of the specification's list, relative to the project root.
ListedFiles ==
    {<<".golintci.yml">>, <<".gitignore">>, <<"Makefile">>, <<"scripts", "pre-commit">>,
     <<"scripts", "setup.sh">>, <<"scripts", "cibuild.sh">>,
     <<".git", "hooks", "pre-commit">>}

WorkflowFile == <<".github", "workflows", "releaser.yml">>
ReleaseConfigFile == <<".goreleaser.yml">>

\* The versions that create scripts; of them v4 also creates the workflow.
ScriptVersions == {"v3", "v4"}

\* C2 as claimed: in the versions that create scripts, after a run that
\* exits 0 the files the program wrote are exactly the listed seven, plus the
\* release workflow in the version that creates workflows.
C2_Original ==
    (exitCode = 0 /\ variant \in ScriptVersions) =>
        ProgramFiles =
            Under(Root, ListedFiles \cup (IF variant = "v4" THEN {WorkflowFile} ELSE {}))

\* C2 as amended: in the versions that create scripts, after a run that
\* exits 0 the files the program wrote are exactly the listed seven, plus
\* the release workflow and the release configuration .goreleaser.yml in
\* the version that creates workflows; each holds its whole template.
C2_FilesWritten ==
    (exitCode = 0 /\ variant \in ScriptVersions) =>
        /\ ProgramFiles =
              Under(Root, ListedFiles \cup
                          (IF variant = "v4" THEN {WorkflowFile, ReleaseConfigFile} ELSE {}))
        /\ \A p \in ProgramFiles : Len(files[p].content) = TemplateLen

C2_Witness ==
    /\ exitCode = 0
    /\ variant = "v4"
    /\ Root \o ReleaseConfigFile \in ProgramFiles
    /\ Root \o <<"Makefile">> \in ProgramFiles

ExecutableMarked ==
    {<<"scripts", "pre-commit">>, <<"scripts", "setup.sh">>, <<"scripts", "cibuild.sh">>,
     <<".git", "hooks", "pre-commit">>}

\* C4 as claimed: after a run that exits 0, of the files the program wrote
\* the three scripts and the pre-commit hook have the owner-execute bit and
\* no other file has it.
C4_ExecutableBits ==
    exitCode = 0 =>
        \A p \in ProgramFiles :
            OwnerExec(files[p].mode) <=> p \in Under(Root, ExecutableMarked)

\* The contexts of an error another step of this version could log from
\* the present state.
ContextsOfOtherSteps(step) ==
    {RunStep(variant, Steps(variant)[j], name, Env, St, f).err.ctx :
        <<j, f>> \in {jf \in (1..Len(Steps(variant))) \X Faults :
                        /\ Steps(variant)[jf[1]] # step
                        /\ jf[2] \in StepFaults(Steps(variant)[jf[1]])
                        /\ IsErr(RunStep(variant, Steps(variant)[jf[1]], name, Env, St,
                                         jf[2]).err)}}

\* C7 as claimed: the process exits 0 exactly when every step succeeded;
\* when a step after the probe fails the process exits 1 and the error
\* logged carries the underlying cause inside a context that no other step
\* of the program produces.
C7_ExitCodeAndMessage ==
    /\ exitCode = 0 <=>
          (Len(log) = Len(Steps(variant)) /\ \A i \in 1..Len(log) : log[i].ok)
    /\ (exitCode = 1 /\ log[Len(log)].step # "preflight") =>
          /\ errMsg.cause # ""
          /\ errMsg.ctx \notin ContextsOfOtherSteps(log[Len(log)].step)

ModInits ==
    {i \in 1..Len(cmds) :
        cmds[i].prog = "go" /\ Len(cmds[i].args) = 3 /\ cmds[i].args[1] = "mod"}

GitInitSucceededBefore(i) ==
    \E j \in 1..(i - 1) : cmds[j].prog = "git" /\ cmds[j].args = <<"init">> /\ cmds[j].ok

\* go mod init runs at most once, after a successful git init, in the
\* project root, and has run when the process exits 0.
ModInitOnceAfterGitInit ==
    /\ Cardinality(ModInits) <= 1
    /\ \A i \in ModInits : GitInitSucceededBefore(i) /\ cmds[i].dir = Root
    /\ exitCode = 0 => ModInits # {}

\* C8 as claimed: go mod init runs once, after a successful git init, with
\* the resolved alias followed by the name; without a configuration file
\* that is project/ followed by the name.
C8_Original ==
    /\ ModInitOnceAfterGitInit
    /\ \A i \in ModInits :
          /\ cmds[i].args[3] = getAlias(Env) \o Str(name)
          /\ sshState = "missing" => cmds[i].args[3] = "project/" \o Str(name)

\* C8 as amended: go mod init runs at most once (once in a run that exits
\* 0), after a successful git init; in the versions with an alias resolver
\* (v3, v4) its module name is the resolved alias followed by the name,
\* project/ followed by the name without a configuration file; in the
\* versions without one (v1, v2) it is the name alone.
C8_ModuleName ==
    /\ ModInitOnceAfterGitInit
    /\ \A i \in ModInits :
          IF variant \in {"v3", "v4"}
          THEN /\ cmds[i].args[3] = getAlias(Env) \o Str(name)
               /\ sshState = "missing" => cmds[i].args[3] = "project/" \o Str(name)
          ELSE cmds[i].args[3] = Str(name)

C8_Witness ==
    /\ variant = "v3"
    /\ sshState = "missing"
    /\ \E i \in ModInits : cmds[i].args[3] = "project/demo" /\ cmds[i].ok

FixedFileNames == {".golintci.yml", ".gitignore", "Makefile", ".goreleaser.yml"}

\* C9 as claimed: every fixed template file the program wrote lies directly
\* in the project root, and no step runs after the one that changes into
\* .git/hooks and writes the hook.
C9_FixedFilesInRoot ==
    /\ \A p \in ProgramFiles :
          p[Len(p)] \in FixedFileNames => Parent(p) = Root
    /\ \A i \in 1..Len(log) :
          log[i].step = "createPreCommitHook" => i = Len(log)

\* C11 as claimed: the path mkdir checks with os.Stat (the name as the
\* operating system resolves it), the path it creates (the working directory
\* joined with the name) and the path os.Chdir enters (the name again) are
\* one directory: the directory the mkdir step made is the one the name
\* denotes, and the directory entered is the one that was checked and made.
C11_SameDirectory ==
    /\ \A m \in made : m.step = "mkdir" => m.path = NamedAtStart
    /\ (Len(log) > 0 /\ log[Len(log)] = [step |-> "chdir", ok |-> TRUE]) =>
          /\ cwd = NamedAtStart
          /\ [path |-> cwd, step |-> "mkdir"] \in made

-----------------------------------------------------------------------------
(* getAlias on its own: every home directory and configuration file. *)

BlockTab == <<"H","o","s","t"," ","g","i","t","h","u","b",".","c","o","m","\n","\t","U","s","e","r"," ","b","o","b","_","1","\n">>
BlockHostName == <<"H","o","s","t"," ","g","i","t","h","u","b",".","c","o","m","\n"," "," ","H","o","s","t","N","a","m","e"," ","g","i","t","h","u","b",".","c","o","m","\n"," "," ","U","s","e","r"," ","a","l","e","x","\n">>

\* The blocks a configuration file may end with; the empty one, with no
\* filler before it, is the empty file.
AliasBlocks ==
    {<<>>, BlockGood, BlockTab, BlockOther, BlockNoIndent, BlockNoUser, BlockHostName}

\* The filler before the block: none, or enough to bring the block to the
\* read budget and past it.
Pads == {0} \cup ((ReadBudget - PadSlack)..(ReadBudget + 2))

AliasEnvs ==
    {e \in [homeOk : BOOLEAN, state : {"missing", "unreadable", "present"},
            pad : Pads, block : AliasBlocks] :
        e.state # "present" => (e.pad = 0 /\ e.block = <<>>)}

\* The state of a run of one function on its own.
UnitInit(fn) ==
    /\ name = DefaultProjectName
    /\ cwd = WorkDir
    /\ umask \in Umasks
    /\ cmds = <<>>
    /\ pc = 0
    /\ exitCode = -1
    /\ errMsg = Nil
    /\ log = <<>>
    /\ made = {}
    /\ fs0 = [cwd |-> cwd, dirs |-> dirs, files |-> files]
    /\ aliasOut = ""
    /\ call.fn = fn

InitAlias ==
    /\ variant \in {"v3", "v4"}
    /\ dirs = {<<>>, WorkDir}
    /\ files = <<>>
    /\ \E e \in AliasEnvs :
          homeOk = e.homeOk /\ sshState = e.state /\ sshPad = e.pad /\ sshBlock = e.block
    /\ call = [fn |-> "getAlias"]
    /\ UnitInit("getAlias")

GetAlias ==
    /\ call.fn = "getAlias"
    /\ pc = 0
    /\ aliasOut' = getAlias(Env)
    /\ pc' = 1
    /\ UNCHANGED <<variant, name, cwd, dirs, files, umask, cmds, homeOk, sshState,
                   sshPad, sshBlock, exitCode, errMsg, log, made, fs0, call>>

NextAlias == GetAlias

SpecAlias == InitAlias /\ [][NextAlias]_vars

\* The user of a block of the form Host github.com / User <user>, and ""
\* for a block of another form.
BlockUser(b) ==
    CASE b = BlockGood -> "alex"
      [] b = BlockTab -> "bob_1"
      [] OTHER -> ""

\* Such a block ends with its user name and a newline.
UserEnd(b) == Len(b) - 1

\* C5 as claimed: getAlias returns github.com/<user>/ when the home
\* directory is known and the configuration file holds a block of the form
\* Host github.com / User <user> that lies within the first ReadBudget
\* bytes, and project/ in every other case.
C5_AliasResolution ==
    (call.fn = "getAlias" /\ pc = 1) =>
        aliasOut =
            IF /\ homeOk
               /\ sshState = "present"
               /\ BlockUser(sshBlock) # ""
               /\ sshPad + UserEnd(sshBlock) <= ReadBudget
            THEN "github.com/" \o BlockUser(sshBlock) \o "/"
            ELSE DefaultAlias

-----------------------------------------------------------------------------
(* createFile on its own: every target, template and failure. *)

CreateFileTargets == {GitignoreFile, Makefile, SetupScriptFile}
CreateFileTemplates == {GitignoreTemplate, MakefileTemplate}

\* What may be at the target before the call: nothing, or a file.
PreviousFiles(key) ==
    [content : {<<>>, <<"old">>, <<"old", "old", "old">>,
                SubSeq(TemplateContent(key), 1, 1), TemplateContent(key)},
     mode : {420, 493},
     by : {"program"}]

InitCreateFile ==
    /\ variant \in Variants
    /\ \E n \in CreateFileTargets, key \in CreateFileTemplates :
          /\ call = [fn |-> "createFile", n |-> n, key |-> key, fault |-> NoFault]
          /\ \/ files = <<>>
             \/ \E f \in PreviousFiles(key) : files = (WorkDir \o Split(n)) :> f
    /\ \E more \in {{}, {WorkDir \o <<"scripts">>}, {WorkDir \o <<"Makefile">>}} :
          dirs = {<<>>, WorkDir} \cup more
    /\ WorkDir \o Split(call.n) \in dirs => files = <<>>
    /\ homeOk = FALSE /\ sshState = "missing" /\ sshPad = 0 /\ sshBlock = <<>>
    /\ UnitInit("createFile")

\* The call returns r under the fault.
Returned(r, fault) ==
    /\ dirs' = r.st.dirs
    /\ files' = r.st.files
    /\ cwd' = r.st.cwd
    /\ errMsg' = r.err
    /\ call' = [call EXCEPT !.fault = fault]
    /\ pc' = 1
    /\ UNCHANGED <<variant, name, umask, cmds, homeOk, sshState, sshPad, sshBlock,
                   exitCode, log, made, fs0, aliasOut>>

CallCreateFile ==
    /\ call.fn = "createFile"
    /\ pc = 0
    /\ \E fault \in StepFaults("lint") :
          Returned(createFile(variant, St, call.n, call.key, fault), fault)

NextCreateFile == CallCreateFile

SpecCreateFile == InitCreateFile /\ [][NextCreateFile]_vars

Target == fs0.cwd \o Split(call.n)

ProperPrefixes(t) == {SubSeq(t, 1, k) : k \in 0..(Len(t) - 1)}

\* os.Create can make or truncate the target.
Creatable == Parent(Target) \in fs0.dirs /\ Target \notin fs0.dirs

FailedAfterCreate == Creatable /\ call.fault.kind \in {"read", "write"}

\* C10: when reading the template or writing it fails after the target was
\* created or truncated, createFile returns an error and leaves the target
\* on disk, empty (read) or holding a proper prefix of the template (write),
\* whatever it held before; when createFile returns nil the target holds
\* the whole template; when os.Create fails the disk is untouched.
C10_NoCleanupOnFailure ==
    (call.fn = "createFile" /\ pc = 1) =>
        /\ dirs = fs0.dirs
        /\ errMsg = Nil =>
              (Target \in DOMAIN files /\ files[Target].content = TemplateContent(call.key))
        /\ FailedAfterCreate =>
              /\ IsErr(errMsg)
              /\ Target \in DOMAIN files
              /\ files[Target].content \in ProperPrefixes(TemplateContent(call.key))
              /\ call.fault.kind = "read" => files[Target].content = <<>>
        /\ (IsErr(errMsg) /\ ~FailedAfterCreate) => files = fs0.files

C10_Witness ==
    /\ call.fn = "createFile"
    /\ pc = 1
    /\ call.fault.kind = "write"
    /\ IsErr(errMsg)
    /\ Target \in DOMAIN fs0.files
    /\ fs0.files[Target].content = <<"old", "old", "old">>
    /\ files[Target].content = SubSeq(TemplateContent(call.key), 1, TemplateLen - 1)

====
